---- MODULE Spec2Model ----
(***************************************************************************)
(* Model of drivers/oneplus/misc/oem_force_dump.c: the key-combination     *)
(* recognizer oem_check_force_dump_key, the single-slot notifier           *)
(* (message_state, smg_work, send_msg_worker) and the netlink channel      *)
(* (send_msg, fd).                                                         *)
(*                                                                         *)
(* Spec starts in the state after a successful op_netlink_init: the        *)
(* socket and the single-threaded workqueue exist, the statics hold their *)
(* initializers.  The key handler runs on one serialized input context;    *)
(* the worker runs on its own thread, so the handler's writes to the       *)
(* shared statics and the worker's reads are separate steps.               *)
(*                                                                         *)
(* SpecChannel drives recv_nlmsg and send_msg_sync_mdm_dump, SpecSync the  *)
(* direct sender against the recognizer, SpecTasks the two signal senders  *)
(* over every task list, and SpecGate the two compound_key gates against   *)
(* the recognizer and the key statuses.                                    *)
(***************************************************************************)
EXTENDS Integers, Sequences, FiniteSets, TLC

VARIABLES
    state,           \* static enum state of oem_check_force_dump_key
    kpc,             \* key handler: 0 when not in a STEP_DEBUG1 branch, else its next statement
    download_mode,   \* what oem_get_download_mode() returns now (external flag)
    panicked,        \* panic("Force Dump") has been called
    selinux_switch,  \* static int selinux_switch
    message_state,   \* static int message_state
    work_pending,    \* WORK_STRUCT_PENDING bit of smg_work
    wpc,             \* position of send_msg_worker: "idle", "test1", "test2", "reset"
    nl_sk,           \* the netlink socket exists
    fd,              \* static int fd, the cached peer port id
    last,            \* history: the event being / most recently handled, and the state it met
    effs,            \* history: the effects of that handler invocation
    path,            \* history: the most recent events, back to the last time the recognizer was idle
    enqLog,          \* history: the completed enqueues, each with the worker runs started before it
    runs,            \* history: how many times send_msg_worker has started
    calls,           \* history: what the worker called (msm_serial_oem_init, send_msg)
    seen,            \* history: the values the current worker run read from message_state
    fed,             \* history: how much of the primary combination the latest events spell, from idle
    serial_effects,  \* how many times the serial console has been enabled (state of the serial driver)
    endpoints,       \* the port ids at which a userspace socket has shown itself to the channel
    rx,              \* history: the latest inbound message handed to recv_nlmsg
    peer,            \* history: the sender id of the latest well-formed inbound message
    sync_calls,      \* history: the send_msg calls of send_msg_sync_mdm_dump
    tasks,           \* the task list: processes in list order, each its threads, leader first
    pwr_status,      \* enum key_stat_item pwr_status
    vol_up_status,   \* enum key_stat_item vol_up_status
    req,             \* history: the latest capture request, what it met and the signals it sent
    mark,            \* history: the kind the handler last stored in message_state, and how many calls the worker had made by then
    feeds,           \* history: the runs of the primary combination the latest events spell, each with the state its first event met
    lpc,             \* module life: "boot", "up" (op_netlink_init returned), "released" (inside op_netlink_exit), "down"
    smg_workwq,      \* the workqueue exists (smg_workwq != NULL and not destroyed)
    smg_work,        \* INIT_WORK(&smg_work, send_msg_worker) has run
    sock_released,   \* sock_release(nl_sk->sk_socket) has run
    oops,            \* queue_work was called without a workqueue
    attrs,           \* drm_sysfs.c: the value each numeric control holds
    store,           \* history: the latest sysfs store call and what it did
    vpc,             \* vbswap_helper.c: position of vbswap_init
    argv,            \* static char** argv: whether the array is there, and its four slots
    heap,            \* the state of each buffer alloc_memory may allocate
    enforcing,       \* the SELinux enforcing state
    is_enforcing,    \* bool is_enforcing of vbswap_init
    retries,         \* int retries of vbswap_helper
    ret,             \* int ret of vbswap_helper
    cmdlog,          \* history: the commands linux_sh ran, each with its result
    sel_log          \* history: what vbswap_init read from and wrote to the enforcing state

vars == <<state, kpc, download_mode, panicked, selinux_switch, message_state,
          work_pending, wpc, nl_sk, fd, last, effs, path, enqLog, runs, calls, seen, fed,
          serial_effects, endpoints, rx, peer, sync_calls,
          tasks, pwr_status, vol_up_status, req,
          mark, feeds, lpc, smg_workwq, smg_work, sock_released, oops,
          attrs, store,
          vpc, argv, heap, enforcing, is_enforcing, retries, ret, cmdlog, sel_log>>

\* What the recognizer and the worker never touch: the channel's inbound
\* side and the capture path.
chanVars == <<endpoints, rx, peer, sync_calls>>

taskVars == <<tasks, pwr_status, vol_up_status, req>>

\* The module's life cycle, the display controls and the swap bring-up.
lifeVars == <<lpc, smg_workwq, smg_work, sock_released, oops>>

sysfsVars == <<attrs, store>>

swapVars == <<vpc, argv, heap, enforcing, is_enforcing, retries, ret, cmdlog, sel_log>>

\* How many notifications the recognizer may enqueue in one behaviour.
MaxEnq == 2

----------------------------------------------------------------------------
\* Key codes and values of the input layer.

KEY_POWER == "KEY_POWER"
KEY_VOLUMEUP == "KEY_VOLUMEUP"
KEY_VOLUMEDOWN == "KEY_VOLUMEDOWN"
KEY_OTHER == "KEY_OTHER"

Codes == {KEY_POWER, KEY_VOLUMEUP, KEY_VOLUMEDOWN, KEY_OTHER}

\* int value: 0 released, 1 pressed, 2 autorepeat; the code tests only value / !value.
Values == {0, 1, 2}

States == {"NONE", "STEP1", "STEP2", "STEP3", "STEP4", "STEP5", "STEP6",
           "STEP7", "STEP8", "STEP9", "STEP10", "STEP11", "STEP_DEBUG1"}

\* The C truth value of `value`.
Pressed(value) == value # 0

\* static int message_state = -1
MessageStateInit == -1

\* static int fd = -1
FdInit == -1

----------------------------------------------------------------------------
\* oem_check_force_dump_key: the switch over the static state.

\* One operator per case of the switch: the value the case leaves in state
\* when the handler returns.

CaseNONE(code, value) ==
    IF code = KEY_VOLUMEUP /\ Pressed(value) THEN "STEP1" ELSE "NONE"

\* STEP1 taking the first event of the combination as a fresh start.
CaseSTEP1_Resync(code, value) ==
    IF code = KEY_VOLUMEUP /\ ~Pressed(value) THEN "STEP2"
    ELSE IF code = KEY_VOLUMEUP /\ Pressed(value) THEN "STEP1"
    ELSE "NONE"

CaseSTEP1(code, value) ==
    IF code = KEY_VOLUMEUP /\ ~Pressed(value) THEN "STEP2" ELSE "NONE"

CaseSTEP2(code, value) ==
    IF code = KEY_VOLUMEDOWN /\ Pressed(value) THEN "STEP3" ELSE "NONE"

CaseSTEP3(code, value) ==
    IF code = KEY_VOLUMEDOWN /\ ~Pressed(value) THEN "STEP4" ELSE "NONE"

CaseSTEP4(code, value) ==
    IF code = KEY_VOLUMEUP /\ Pressed(value) THEN "STEP5" ELSE "NONE"

CaseSTEP5(code, value) ==
    IF code = KEY_POWER /\ Pressed(value) THEN "STEP6" ELSE "NONE"

\* The same case with the test of value dropped.
CaseSTEP6_AnyValue(code, value) ==
    IF code = KEY_POWER THEN "STEP7" ELSE "NONE"

CaseSTEP6(code, value) ==
    IF code = KEY_POWER /\ ~Pressed(value) THEN "STEP7" ELSE "NONE"

CaseSTEP7(code, value) ==
    IF code = KEY_POWER /\ Pressed(value) THEN "STEP8" ELSE "NONE"

\* The same case with the polarity of value inverted.
CaseSTEP8_Inverted(code, value) ==
    IF code = KEY_POWER /\ Pressed(value) THEN "STEP9" ELSE "NONE"

CaseSTEP8(code, value) ==
    IF code = KEY_POWER /\ ~Pressed(value) THEN "STEP9" ELSE "NONE"

CaseSTEP9(code, value) ==
    IF code = KEY_VOLUMEUP /\ ~Pressed(value) THEN "STEP10" ELSE "NONE"

CaseSTEP10(code, value) ==
    IF code = KEY_VOLUMEUP /\ Pressed(value) THEN "STEP11"
    ELSE IF code = KEY_VOLUMEDOWN /\ Pressed(value) THEN "STEP_DEBUG1"
    ELSE "NONE"

\* The POWER-pressed branch of STEP11 assigns nothing to state.
CaseSTEP11(code, value) ==
    IF code = KEY_POWER /\ Pressed(value) THEN "STEP11" ELSE "NONE"

\* All three branches of STEP_DEBUG1 end with state = NONE.
CaseSTEP_DEBUG1(code, value) == "NONE"

NextState(s, code, value) ==
    CASE s = "NONE" -> CaseNONE(code, value)
      [] s = "STEP1" -> CaseSTEP1(code, value)
      [] s = "STEP2" -> CaseSTEP2(code, value)
      [] s = "STEP3" -> CaseSTEP3(code, value)
      [] s = "STEP4" -> CaseSTEP4(code, value)
      [] s = "STEP5" -> CaseSTEP5(code, value)
      [] s = "STEP6" -> CaseSTEP6(code, value)
      [] s = "STEP7" -> CaseSTEP7(code, value)
      [] s = "STEP8" -> CaseSTEP8(code, value)
      [] s = "STEP9" -> CaseSTEP9(code, value)
      [] s = "STEP10" -> CaseSTEP10(code, value)
      [] s = "STEP11" -> CaseSTEP11(code, value)
      [] s = "STEP_DEBUG1" -> CaseSTEP_DEBUG1(code, value)

\* case STEP11, first test: the event that asks for the forced dump.
ForceDumpEvent(s, code, value) ==
    s = "STEP11" /\ code = KEY_POWER /\ Pressed(value)

\* The gate with the query of the download-mode flag dropped.
ForceDumpGate_Always(dl) == TRUE

\* case STEP11, second test: if (oem_get_download_mode()) panic("Force Dump").
ForceDumpGate(dl) == dl

\* case STEP_DEBUG1, first branch.
DebugPowerEvent(s, code, value) ==
    s = "STEP_DEBUG1" /\ code = KEY_POWER /\ Pressed(value)

\* case STEP_DEBUG1, second branch.
DebugVolDownEvent(s, code, value) ==
    s = "STEP_DEBUG1" /\ code = KEY_VOLUMEDOWN /\ ~Pressed(value)

\* The first branch with its two stores in the other order.
DebugPowerStmts_MsgFirst == <<"message_state", "set_oem_selinux_state", "queue_work">>

\* The first branch's statements pasted into the second.
DebugVolDownStmts_Pasted == <<"set_oem_selinux_state", "message_state", "queue_work">>

\* The statements of the first STEP_DEBUG1 branch, in program order; the
\* closing state = NONE is private to the handler and ends the last one.
DebugPowerStmts == <<"set_oem_selinux_state", "message_state", "queue_work">>

\* The statements of the second STEP_DEBUG1 branch, in program order.
DebugVolDownStmts == <<"message_state", "queue_work">>

\* The value each branch stores in message_state.
DebugPowerKind == 1
DebugVolDownKind == 2

\* A store that keeps a kind the worker has not drained yet.
message_state_store_KeepFirst(old, kind) == IF old \in {1, 2} THEN old ELSE kind

\* message_state = kind: a plain store, whatever the slot held.
message_state_store(old, kind) == kind

\* The setter storing 0 whatever it is given.
set_oem_selinux_state_Zero(v) == 0

\* set_oem_selinux_state(state): selinux_switch = state.
set_oem_selinux_state(v) == v

\* queue_work(smg_workwq, &smg_work): sets the pending bit; a work item that
\* is already pending is not queued a second time.
queue_work(pending) == TRUE

----------------------------------------------------------------------------
\* History bookkeeping.

NoEvent == [from |-> "NONE", code |-> "NO_KEY", value |-> 0, dl |-> FALSE]

Ev(code, value) == [code |-> code, pressed |-> Pressed(value)]

\* The primary combination, up to the state STEP11.
PrimarySeq ==
    << Ev(KEY_VOLUMEUP, 1), Ev(KEY_VOLUMEUP, 0), Ev(KEY_VOLUMEDOWN, 1),
       Ev(KEY_VOLUMEDOWN, 0), Ev(KEY_VOLUMEUP, 1), Ev(KEY_POWER, 1),
       Ev(KEY_POWER, 0), Ev(KEY_POWER, 1), Ev(KEY_POWER, 0),
       Ev(KEY_VOLUMEUP, 0), Ev(KEY_VOLUMEUP, 1) >>

PowerDown == Ev(KEY_POWER, 1)

\* The primary combination with its closing POWER press.
FullSeq == PrimarySeq \o <<PowerDown>>

\* fed after event e met the recognizer in state s: one more event of
\* FullSeq, or a fresh start when e is its first event and s is idle.
FedNext(f, s, e) ==
    IF f < Len(FullSeq) /\ (f > 0 \/ s = "NONE") /\ e = FullSeq[f + 1] THEN f + 1
    ELSE IF s = "NONE" /\ e = FullSeq[1] THEN 1
    ELSE 0

\* feeds after event e met the recognizer in state s with the download-mode
\* flag dl: every run of FullSeq that e continues, one event longer, and a
\* new run when e is its first event and s is not idle.  A run keeps the
\* state its first event met and whether the flag was set at all its events.
FeedsNext(fs, s, e, dl) ==
    {[from |-> a.from, n |-> a.n + 1, dl |-> a.dl /\ dl] :
        a \in {b \in fs : b.n < Len(FullSeq) /\ e = FullSeq[b.n + 1]}}
      \cup (IF s # "NONE" /\ e = FullSeq[1]
            THEN {[from |-> s, n |-> 1, dl |-> dl]} ELSE {})

\* path keeps at most the events of one full combination.
PathCap == Len(PrimarySeq) + 1

Push(p, e) ==
    LET q == Append(p, e) IN IF Len(q) > PathCap THEN Tail(q) ELSE q

----------------------------------------------------------------------------
\* The sender that addresses port id 0 whatever fd holds.
send_msg_Unaddressed(message) ==
    IF ~nl_sk
    THEN {[run |-> runs, call |-> "send_msg", text |-> message, to |-> 0, tx |-> FALSE]}
    ELSE {[run |-> runs, call |-> "send_msg", text |-> message, to |-> 0, tx |-> ok] :
             ok \in BOOLEAN}

\* send_msg(message): the call record it leaves.  Nothing is transmitted
\* without a socket or when alloc_skb fails; otherwise the message goes to
\* netlink_unicast with the cached port id fd.
send_msg(message) ==
    IF ~nl_sk
    THEN {[run |-> runs, call |-> "send_msg", text |-> message, to |-> fd, tx |-> FALSE]}
    ELSE {[run |-> runs, call |-> "send_msg", text |-> message, to |-> fd, tx |-> ok] :
             ok \in BOOLEAN}

\* msm_serial_oem_init() of the serial driver: enabling the serial console
\* is a one-time effect; a later call finds it enabled and adds nothing.
msm_serial_oem_init(n) == IF n = 0 THEN 1 ELSE n

\* msm_serial_oem_init(), called by the worker before the serial message.
serial_init_call ==
    [run |-> runs, call |-> "msm_serial_oem_init", text |-> "", to |-> fd, tx |-> FALSE]

\* The serial branch with its two calls in the other order.
SerialBranchCalls_SendFirst(c) == <<c, serial_init_call>>

\* msm_serial_oem_init(); send_msg("ENABLE_OEM_FORCE_SERIAL");
SerialBranchCalls(c) == <<serial_init_call, c>>

\* The first test sending the second test's text.
WorkerText1_Swapped == "ENABLE_OEM_FORCE_SERIAL"

\* The text send_msg_worker passes to send_msg at each of its two tests.
WorkerText1 == "Enable DEBUG!"
WorkerText2 == "ENABLE_OEM_FORCE_SERIAL"

----------------------------------------------------------------------------
\* The channel: recv_nlmsg, send_msg_sync_mdm_dump and the transport.

\* NLMSG_HDRLEN, the size of struct nlmsghdr.
NLMSG_HDRLEN == 16

\* Port ids are held as the int with the same 32 bits: fd is an int, and
\* nlmsg_pid and the portid netlink_unicast takes are u32.
SenderIds == {0, 1234}

\* An inbound skb: its length, and the two header fields recv_nlmsg reads.
Msgs ==
    [nlmsg_len : {NLMSG_HDRLEN - 4, NLMSG_HDRLEN, NLMSG_HDRLEN + 4},
     skb_len : {NLMSG_HDRLEN, NLMSG_HDRLEN + 4},
     nlmsg_pid : SenderIds]

NoMsg == [nlmsg_len |-> 0, skb_len |-> 0, nlmsg_pid |-> 0]

\* No sender id learned yet; a learned id p is held as <<p>>.
NoPeer == <<>>

\* The test recv_nlmsg returns on, with its two sides joined by "and".
WellFormed_Both(m) == ~(m.nlmsg_len < NLMSG_HDRLEN /\ m.skb_len < m.nlmsg_len)

\* if (nlh->nlmsg_len < NLMSG_HDRLEN || skb->len < nlh->nlmsg_len) return;
WellFormed(m) == ~(m.nlmsg_len < NLMSG_HDRLEN \/ m.skb_len < m.nlmsg_len)

\* The text of the modem-dump message sent as the worker's first text.
SyncText_Debug == "Enable DEBUG!"

SyncText == "FORCE_MDM_DUMP_SYNC"

\* How many direct modem-dump requests a behaviour holds.
MaxSync == 2

\* netlink_unicast of the transport: a message reaches a userspace socket
\* only if one is bound at the port id it is addressed to.
Delivered(c, bound) == c.tx /\ c.to \in bound

----------------------------------------------------------------------------
\* The capture path: find_task_by_name, send_sig_to_get_trace,
\* send_sig_to_get_tombstone and the two compound_key gates.

\* A C string is the sequence of its characters before the NUL.
NUL == ""

CharAt(str, i) == IF i <= Len(str) THEN str[i] ELSE NUL

\* strncmp(a, b, n) == 0: the first n characters agree, up to the first NUL.
strncmp_eq(a, b, n) ==
    \A i \in 1..n :
        (\A j \in 1..(i - 1) : CharAt(a, j) # NUL) => CharAt(a, i) = CharAt(b, i)

\* strcmp(a, b) == 0: the characters agree up to and including the NUL.
strcmp_eq(a, b) == \A i \in 1..(Len(a) + 1) : CharAt(a, i) = CharAt(b, i)

\* char comm[TASK_COMM_LEN]
TASK_COMM_LEN == 16

\* What a task's comm holds when it was named n: at most 15 characters.
Comm(n) == IF Len(n) < TASK_COMM_LEN THEN n ELSE SubSeq(n, 1, TASK_COMM_LEN - 1)

BinderPrefix == <<"B", "i", "n", "d", "e", "r", ":">>

MainName == <<"m", "a", "i", "n">>

\* tcred->uid.val == 1000
SystemUid == 1000

SIGQUIT == 3
SIGRTMIN == 32

\* #define SIGNAL_DEBUGGER (SIGRTMIN + 3)
SIGNAL_DEBUGGER == SIGRTMIN + 3

\* The names capture is requested for: one that fits comm, one that does not.
ServerName == <<"s", "y", "s", "t", "e", "m", "_", "s", "e", "r", "v", "e", "r">>

PhoneName == <<"c", "o", "m", ".", "a", "n", "d", "r", "o", "i", "d", ".",
               "p", "h", "o", "n", "e">>

Names == {ServerName, PhoneName}

\* The comm values, owner uids and parents the tasks of a table are drawn from.
Comms ==
    { Comm(ServerName), Comm(PhoneName),
      <<"B", "i", "n", "d", "e", "r", ":", "1">>,
      <<"B", "i", "n", "d", "e", "r", "_", "1">>,
      <<"B", "i", "n", "d", "e", "r">> }

Uids == {0, SystemUid}

\* t->parent == 0
NoParent == <<>>

InitName == <<"i", "n", "i", "t">>

Parents == {NoParent, MainName, MainName \o <<"2">>, InitName}

ThreadKinds == [comm : Comms, uid : Uids, parent : Parents]

\* A process is its threads in thread-list order, the group leader first.
ProcKinds ==
    {<<t>> : t \in ThreadKinds} \cup {<<t, u>> : t \in ThreadKinds, u \in ThreadKinds}

\* The task lists: one process of one or two threads, or two processes of
\* one thread each, in either order.
Tables ==
    {<<p>> : p \in ProcKinds}
        \cup {<<<<t>>, <<u>>>> : t \in ThreadKinds, u \in ThreadKinds}

\* The pid of thread j of process i of the list.
Pid(i, j) == 10 * i + j

\* The task_struct of thread j of process i: t->group_leader is thread 1.
Task(table, i, j) ==
    [comm |-> table[i][j].comm, uid |-> table[i][j].uid,
     parent |-> table[i][j].parent, pid |-> Pid(i, j), leader_pid |-> Pid(i, 1)]

\* for_each_process_thread(g, t): every thread of every process, in order.
RECURSIVE ThreadScanFrom(_, _)
ThreadScanFrom(table, i) ==
    IF i > Len(table) THEN <<>>
    ELSE [j \in 1..Len(table[i]) |-> Task(table, i, j)] \o ThreadScanFrom(table, i + 1)

ThreadScan(table) == ThreadScanFrom(table, 1)

\* for_each_process(p): the group leaders, in order.
ProcessScan(table) == [i \in 1..Len(table) |-> Task(table, i, 1)]

\* The predicate without its group-leader test.
find_task_by_name_NoLeader(t, name) ==
    \/ strncmp_eq(t.comm, name, TASK_COMM_LEN)
    \/ /\ strncmp_eq(t.comm, BinderPrefix, Len(BinderPrefix))
       /\ t.uid = SystemUid
       /\ t.parent # NoParent /\ strcmp_eq(t.parent, MainName)

find_task_by_name(t, name) ==
    \/ strncmp_eq(t.comm, name, TASK_COMM_LEN)
    \/ /\ strncmp_eq(t.comm, BinderPrefix, Len(BinderPrefix))
       /\ t.leader_pid = t.pid
       /\ t.uid = SystemUid
       /\ t.parent # NoParent /\ strcmp_eq(t.parent, MainName)

\* The loop of both senders: the first task of the scan that matches gets
\* the signal, addressed to its thread group, and the scan ends.
\* hits are the positions of the scan whose task matches.
FirstMatch(scan, hits) ==
    IF hits = {} THEN <<>>
    ELSE <<scan[CHOOSE k \in hits : \A h \in hits : k <= h]>>

SignalTo(sig, found) ==
    [k \in 1..Len(found) |-> [sig |-> sig, pid |-> found[k].pid, tgid |-> found[k].leader_pid]]

\* The trace loop without its return: every matching thread is signalled.
TraceSignals_NoReturn(table, name) ==
    SignalTo(SIGQUIT, SelectSeq(ThreadScan(table), LAMBDA t : find_task_by_name(t, name)))

\* send_sig_to_get_trace(name): the signals it hands to do_send_sig_info.
TraceSignals(table, name) ==
    LET scan == ThreadScan(table)
    IN SignalTo(SIGQUIT,
                FirstMatch(scan, {k \in 1..Len(scan) : find_task_by_name(scan[k], name)}))

\* The tombstone loop with the test of the trace loop.
TombstoneSignals_Heuristic(table, name) ==
    LET scan == ProcessScan(table)
    IN SignalTo(SIGNAL_DEBUGGER,
                FirstMatch(scan, {k \in 1..Len(scan) : find_task_by_name(scan[k], name)}))

\* send_sig_to_get_tombstone(name): the signals it hands to do_send_sig_info.
TombstoneSignals(table, name) ==
    LET scan == ProcessScan(table)
    IN SignalTo(SIGNAL_DEBUGGER,
                FirstMatch(scan, {k \in 1..Len(scan) :
                                     strncmp_eq(scan[k].comm, name, TASK_COMM_LEN)}))

KEY_RELEASED == "KEY_RELEASED"
KEY_PRESSED == "KEY_PRESSED"

KeyStats == {KEY_RELEASED, KEY_PRESSED}

\* The gate with its two tests joined by "or".
CompoundGate_Either(pwr, vol) == pwr = KEY_PRESSED \/ vol = KEY_PRESSED

\* Both compound_key functions test the same two statuses.
CompoundGate(pwr, vol) == pwr = KEY_PRESSED /\ vol = KEY_PRESSED

NoReq == [fn |-> "none", name |-> <<>>, sent |-> <<>>]

\* The task list of the runs that do not vary it: init, a server, an app.
IdleTable ==
    << <<[comm |-> InitName, uid |-> 0, parent |-> NoParent]>>,
       <<[comm |-> Comm(ServerName), uid |-> SystemUid, parent |-> MainName]>>,
       <<[comm |-> Comm(PhoneName), uid |-> SystemUid, parent |-> MainName]>> >>

\* No kind stored by the handler yet.
NoMark == [kind |-> 0, at |-> 0]

\* op_netlink_init has returned 0: socket, workqueue and work item are there.
LifeUp ==
    /\ lpc = "up"
    /\ smg_workwq = TRUE
    /\ smg_work = TRUE
    /\ sock_released = FALSE
    /\ oops = FALSE

\* The numeric controls of drm_sysfs.c the model follows: one that hands the
\* parsed value to a setter, and five that parse into a global.
Attrs == {"acl", "dsi_cmd_log_switch", "dim_alpha", "dimlayer_bl_en", "dither_en", "dp_en"}

NoStore == [attr |-> "none", buf |-> <<>>, err |-> 0, before |-> 0, setter |-> FALSE, ret |-> 0]

\* The globals are zero-initialised statics; the panel's acl mode starts at 0.
SysfsInit ==
    /\ attrs = [a \in Attrs |-> 0]
    /\ store = NoStore

STANDARD_SIZE == 4

\* static char** argv is NULL and nothing is allocated before vbswap_init runs.
NoHeap == [arr |-> "none", str |-> [i \in 1..STANDARD_SIZE |-> "none"]]

SwapIdle ==
    /\ vpc = "start"
    /\ argv = <<>>
    /\ heap = NoHeap
    /\ is_enforcing = FALSE
    /\ retries = 0
    /\ ret = 0
    /\ cmdlog = <<>>
    /\ sel_log = <<>>

----------------------------------------------------------------------------
\* The state after a successful op_netlink_init.
Init ==
    /\ state = "NONE"
    /\ kpc = 0
    /\ download_mode \in BOOLEAN
    /\ panicked = FALSE
    /\ selinux_switch = 0
    /\ message_state = MessageStateInit
    /\ work_pending = FALSE
    /\ wpc = "idle"
    /\ nl_sk = TRUE
    /\ fd = FdInit
    /\ last = NoEvent
    /\ effs = {}
    /\ path = <<>>
    /\ enqLog = <<>>
    /\ runs = 0
    /\ calls = <<>>
    /\ seen = <<>>
    /\ fed = 0
    /\ serial_effects = 0
    /\ endpoints = {}
    /\ rx = NoMsg
    /\ peer = NoPeer
    /\ sync_calls = <<>>
    /\ tasks = IdleTable
    /\ pwr_status = KEY_RELEASED
    /\ vol_up_status = KEY_RELEASED
    /\ req = NoReq
    /\ mark = NoMark
    /\ feeds = {}
    /\ LifeUp
    /\ SysfsInit
    /\ SwapIdle
    /\ enforcing = TRUE

\* The statements of the STEP_DEBUG1 branch the handler is in.
BranchStmts == IF last.code = KEY_POWER THEN DebugPowerStmts ELSE DebugVolDownStmts

BranchKind == IF last.code = KEY_POWER THEN DebugPowerKind ELSE DebugVolDownKind

\* oem_check_force_dump_key(code, value), up to its first write to a shared
\* static.  Every case but STEP_DEBUG1's two branches finishes here.
\* The history feeds is kept by the specification that reads it.
oem_check_force_dump_key(code, value) ==
    /\ kpc = 0
    /\ ~panicked
    /\ ~oops
    /\ Len(enqLog) < MaxEnq
    /\ last' = [from |-> state, code |-> code, value |-> value, dl |-> download_mode]
    /\ fed' = FedNext(fed, state, Ev(code, value))
    /\ IF ForceDumpEvent(state, code, value)
       THEN /\ panicked' = ForceDumpGate(download_mode)
            /\ effs' = IF ForceDumpGate(download_mode) THEN {"panic"} ELSE {}
            /\ state' = state
            /\ path' = Push(path, Ev(code, value))
            /\ kpc' = 0
       ELSE IF DebugPowerEvent(state, code, value) \/ DebugVolDownEvent(state, code, value)
       THEN /\ kpc' = 1
            /\ effs' = {}
            /\ path' = Push(path, Ev(code, value))
            /\ UNCHANGED <<state, panicked>>
       ELSE /\ state' = NextState(state, code, value)
            /\ path' = IF state' = "NONE" THEN <<>> ELSE Push(path, Ev(code, value))
            /\ effs' = {}
            /\ kpc' = 0
            /\ UNCHANGED panicked
    /\ UNCHANGED <<download_mode, selinux_switch, message_state, work_pending, wpc,
                   nl_sk, fd, enqLog, runs, calls, seen>>
    /\ UNCHANGED <<serial_effects, chanVars, taskVars>>
    /\ UNCHANGED <<mark, lifeVars, sysfsVars, swapVars>>

\* The next statement of the STEP_DEBUG1 branch the handler is in.
\* queue_work(smg_workwq, &smg_work) with smg_workwq NULL dereferences it:
\* the handler goes no further.
key_debug_stmt ==
    /\ kpc > 0
    /\ ~panicked
    /\ ~oops
    /\ LET stmt == BranchStmts[kpc]
           null == stmt = "queue_work" /\ ~smg_workwq
           done == kpc = Len(BranchStmts) /\ ~null
       IN /\ selinux_switch' = IF stmt = "set_oem_selinux_state"
                               THEN set_oem_selinux_state(1) ELSE selinux_switch
          /\ message_state' = IF stmt = "message_state"
                              THEN message_state_store(message_state, BranchKind)
                              ELSE message_state
          /\ mark' = IF stmt = "message_state"
                     THEN [kind |-> BranchKind, at |-> Len(calls)] ELSE mark
          /\ work_pending' = IF stmt = "queue_work" /\ ~null
                             THEN queue_work(work_pending) ELSE work_pending
          /\ enqLog' = IF stmt = "queue_work" /\ ~null
                       THEN Append(enqLog, [kind |-> BranchKind, runs |-> runs])
                       ELSE enqLog
          /\ oops' = null
          /\ effs' = IF null THEN effs ELSE effs \cup {stmt}
          /\ kpc' = IF done THEN 0 ELSE IF null THEN kpc ELSE kpc + 1
          /\ state' = IF done THEN "NONE" ELSE state
          /\ path' = IF done THEN <<>> ELSE path
    /\ UNCHANGED <<download_mode, panicked, wpc, nl_sk, fd, last, runs, calls, seen, fed>>
    /\ UNCHANGED <<serial_effects, chanVars, taskVars>>
    /\ UNCHANGED <<feeds, lpc, smg_workwq, smg_work, sock_released, sysfsVars, swapVars>>

\* The download-mode flag belongs to another driver and changes at any time.
set_download_mode ==
    /\ ~panicked
    /\ download_mode' = ~download_mode
    /\ UNCHANGED <<state, kpc, panicked, selinux_switch, message_state, work_pending,
                   wpc, nl_sk, fd, last, effs, path, enqLog, runs, calls, seen, fed>>
    /\ UNCHANGED <<serial_effects, chanVars, taskVars>>
    /\ UNCHANGED <<mark, feeds, lifeVars, sysfsVars, swapVars>>

\* The workqueue thread takes smg_work: the pending bit is cleared before
\* send_msg_worker is entered, and the item never runs twice at once.
worker_start ==
    /\ ~panicked
    /\ work_pending
    /\ wpc = "idle"
    /\ work_pending' = FALSE
    /\ wpc' = "test1"
    /\ runs' = runs + 1
    /\ seen' = <<>>
    /\ UNCHANGED <<state, kpc, download_mode, panicked, selinux_switch, message_state,
                   nl_sk, fd, last, effs, path, enqLog, calls, fed>>
    /\ UNCHANGED <<serial_effects, chanVars, taskVars>>
    /\ UNCHANGED <<mark, feeds, lifeVars, sysfsVars, swapVars>>

\* if (message_state == 1) send_msg("Enable DEBUG!");
worker_test1 ==
    /\ ~panicked
    /\ wpc = "test1"
    /\ seen' = Append(seen, message_state)
    /\ IF message_state = 1
       THEN /\ \E c \in send_msg(WorkerText1) : calls' = Append(calls, c)
            /\ wpc' = "reset"
       ELSE /\ wpc' = "test2"
            /\ UNCHANGED calls
    /\ UNCHANGED <<state, kpc, download_mode, panicked, selinux_switch, message_state,
                   work_pending, nl_sk, fd, last, effs, path, enqLog, runs, fed>>
    /\ UNCHANGED <<serial_effects, chanVars, taskVars>>
    /\ UNCHANGED <<mark, feeds, lifeVars, sysfsVars, swapVars>>

\* else if (message_state == 2) { msm_serial_oem_init(); send_msg(...); }
worker_test2 ==
    /\ ~panicked
    /\ wpc = "test2"
    /\ seen' = Append(seen, message_state)
    /\ IF message_state = 2
       THEN /\ serial_effects' = msm_serial_oem_init(serial_effects)
            /\ \E c \in send_msg(WorkerText2) :
                   calls' = calls \o SerialBranchCalls(c)
       ELSE UNCHANGED <<calls, serial_effects>>
    /\ wpc' = "reset"
    /\ UNCHANGED <<state, kpc, download_mode, panicked, selinux_switch, message_state,
                   work_pending, nl_sk, fd, last, effs, path, enqLog, runs, fed>>
    /\ UNCHANGED <<chanVars, taskVars>>
    /\ UNCHANGED <<mark, feeds, lifeVars, sysfsVars, swapVars>>

\* message_state = 0; the worker returns.
worker_reset ==
    /\ ~panicked
    /\ wpc = "reset"
    /\ message_state' = 0
    /\ wpc' = "idle"
    /\ UNCHANGED <<state, kpc, download_mode, panicked, selinux_switch, work_pending,
                   nl_sk, fd, last, effs, path, enqLog, runs, calls, seen, fed>>
    /\ UNCHANGED <<serial_effects, chanVars, taskVars>>
    /\ UNCHANGED <<mark, feeds, lifeVars, sysfsVars, swapVars>>

send_msg_worker == worker_start \/ worker_test1 \/ worker_test2 \/ worker_reset

Next ==
    \/ \E code \in Codes, value \in Values :
           oem_check_force_dump_key(code, value) /\ UNCHANGED feeds
    \/ key_debug_stmt
    \/ set_download_mode
    \/ send_msg_worker

Spec == Init /\ [][Next]_vars

----------------------------------------------------------------------------
\* The channel's operations, and the specification that adds them.

coreVars == <<state, kpc, download_mode, panicked, selinux_switch, message_state,
              work_pending, wpc, nl_sk, fd, last, effs, path, enqLog, runs, calls,
              seen, fed, serial_effects>>

\* The receiver that keeps the first address it learned.
recv_nlmsg_KeepFirst(m) ==
    /\ ~panicked
    /\ rx' = m
    /\ endpoints' = endpoints \cup {m.nlmsg_pid}
    /\ IF WellFormed(m) /\ fd = FdInit THEN fd' = m.nlmsg_pid ELSE UNCHANGED fd
    /\ peer' = IF m.nlmsg_len >= NLMSG_HDRLEN /\ m.skb_len >= m.nlmsg_len
               THEN <<m.nlmsg_pid>> ELSE peer
    /\ UNCHANGED <<state, kpc, download_mode, panicked, selinux_switch, message_state,
                   work_pending, wpc, nl_sk, last, effs, path, enqLog, runs, calls,
                   seen, fed, serial_effects, sync_calls>>
    /\ UNCHANGED taskVars
    /\ UNCHANGED <<mark, feeds, lifeVars, sysfsVars, swapVars>>

\* The netlink input callback.  rx, endpoints and peer are history: the
\* message that came in, the port ids heard from, and the sender id of the
\* latest message that was neither short of a header nor cut off.
recv_nlmsg(m) ==
    /\ ~panicked
    /\ rx' = m
    /\ endpoints' = endpoints \cup {m.nlmsg_pid}
    /\ IF WellFormed(m) THEN fd' = m.nlmsg_pid ELSE UNCHANGED fd
    /\ peer' = IF m.nlmsg_len >= NLMSG_HDRLEN /\ m.skb_len >= m.nlmsg_len
               THEN <<m.nlmsg_pid>> ELSE peer
    /\ UNCHANGED <<state, kpc, download_mode, panicked, selinux_switch, message_state,
                   work_pending, wpc, nl_sk, last, effs, path, enqLog, runs, calls,
                   seen, fed, serial_effects, sync_calls>>
    /\ UNCHANGED taskVars
    /\ UNCHANGED <<mark, feeds, lifeVars, sysfsVars, swapVars>>

\* The direct sender that also schedules the worker.
send_msg_sync_mdm_dump_Queued ==
    /\ ~panicked
    /\ Len(sync_calls) < MaxSync
    /\ \E c \in send_msg(SyncText) : sync_calls' = Append(sync_calls, c)
    /\ work_pending' = queue_work(work_pending)
    /\ UNCHANGED <<state, kpc, download_mode, panicked, selinux_switch, message_state,
                   wpc, nl_sk, fd, last, effs, path, enqLog, runs, calls,
                   seen, fed, serial_effects, endpoints, rx, peer>>
    /\ UNCHANGED taskVars
    /\ UNCHANGED <<mark, feeds, lifeVars, sysfsVars, swapVars>>

send_msg_sync_mdm_dump ==
    /\ ~panicked
    /\ Len(sync_calls) < MaxSync
    /\ \E c \in send_msg(SyncText) : sync_calls' = Append(sync_calls, c)
    /\ UNCHANGED coreVars
    /\ UNCHANGED <<endpoints, rx, peer>>
    /\ UNCHANGED taskVars
    /\ UNCHANGED <<mark, feeds, lifeVars, sysfsVars, swapVars>>

NextChannel ==
    \/ \E m \in Msgs : recv_nlmsg(m)
    \/ send_msg_sync_mdm_dump

SpecChannel == Init /\ [][NextChannel]_vars

----------------------------------------------------------------------------
\* The capture requests, and the two specifications that make them.

send_sig_to_get_trace(name) ==
    /\ req' = [fn |-> "send_sig_to_get_trace", name |-> name,
               sent |-> TraceSignals(tasks, name)]
    /\ UNCHANGED <<coreVars, chanVars, tasks, pwr_status, vol_up_status>>
    /\ UNCHANGED <<mark, feeds, lifeVars, sysfsVars, swapVars>>

send_sig_to_get_tombstone(name) ==
    /\ req' = [fn |-> "send_sig_to_get_tombstone", name |-> name,
               sent |-> TombstoneSignals(tasks, name)]
    /\ UNCHANGED <<coreVars, chanVars, tasks, pwr_status, vol_up_status>>
    /\ UNCHANGED <<mark, feeds, lifeVars, sysfsVars, swapVars>>

compound_key_to_get_trace(name) ==
    /\ ~panicked
    /\ kpc = 0
    /\ req' = [fn |-> "compound_key_to_get_trace", name |-> name,
               sent |-> IF CompoundGate(pwr_status, vol_up_status)
                        THEN TraceSignals(tasks, name) ELSE <<>>]
    /\ UNCHANGED <<coreVars, chanVars, tasks, pwr_status, vol_up_status>>
    /\ UNCHANGED <<mark, feeds, lifeVars, sysfsVars, swapVars>>

compound_key_to_get_tombstone(name) ==
    /\ ~panicked
    /\ kpc = 0
    /\ req' = [fn |-> "compound_key_to_get_tombstone", name |-> name,
               sent |-> IF CompoundGate(pwr_status, vol_up_status)
                        THEN TombstoneSignals(tasks, name) ELSE <<>>]
    /\ UNCHANGED <<coreVars, chanVars, tasks, pwr_status, vol_up_status>>
    /\ UNCHANGED <<mark, feeds, lifeVars, sysfsVars, swapVars>>

\* The key drivers store the level of their key in pwr_status, vol_up_status.
key_status_store(pwr, vol) ==
    /\ ~panicked
    /\ pwr_status' = pwr
    /\ vol_up_status' = vol
    /\ UNCHANGED <<coreVars, chanVars, tasks, req>>
    /\ UNCHANGED <<mark, feeds, lifeVars, sysfsVars, swapVars>>

\* Requests made straight to the two senders, over every task list.
InitTasks ==
    /\ state = "NONE"
    /\ kpc = 0
    /\ download_mode = FALSE
    /\ panicked = FALSE
    /\ selinux_switch = 0
    /\ message_state = MessageStateInit
    /\ work_pending = FALSE
    /\ wpc = "idle"
    /\ nl_sk = TRUE
    /\ fd = FdInit
    /\ last = NoEvent
    /\ effs = {}
    /\ path = <<>>
    /\ enqLog = <<>>
    /\ runs = 0
    /\ calls = <<>>
    /\ seen = <<>>
    /\ fed = 0
    /\ serial_effects = 0
    /\ endpoints = {}
    /\ rx = NoMsg
    /\ peer = NoPeer
    /\ sync_calls = <<>>
    /\ tasks \in Tables
    /\ pwr_status = KEY_RELEASED
    /\ vol_up_status = KEY_RELEASED
    /\ req = NoReq
    /\ mark = NoMark
    /\ feeds = {}
    /\ LifeUp
    /\ SysfsInit
    /\ SwapIdle
    /\ enforcing = TRUE

NextTasks ==
    \/ \E name \in Names : send_sig_to_get_trace(name)
    \/ \E name \in Names : send_sig_to_get_tombstone(name)

SpecTasks == InitTasks /\ [][NextTasks]_vars

NextGate ==
    \/ \E code \in Codes, value \in Values :
           oem_check_force_dump_key(code, value) /\ UNCHANGED feeds
    \/ key_debug_stmt
    \/ \E pwr \in KeyStats, vol \in KeyStats : key_status_store(pwr, vol)
    \/ \E name \in Names : compound_key_to_get_trace(name)
    \/ \E name \in Names : compound_key_to_get_tombstone(name)

SpecGate == Init /\ [][NextGate]_vars

\* The direct sender called while the recognizer is driven.
NextSync ==
    \/ \E code \in Codes, value \in Values :
           oem_check_force_dump_key(code, value) /\ UNCHANGED feeds
    \/ key_debug_stmt
    \/ send_msg_sync_mdm_dump

SpecSync == Init /\ [][NextSync]_vars

\* The recognizer and the worker with the scheduling the kernel gives them:
\* a queued work item is run and runs to its end, and a handler call that
\* has begun returns.  Key events themselves may stop at any time.
SpecLive == Init /\ [][Next]_vars /\ WF_vars(send_msg_worker) /\ WF_vars(key_debug_stmt)

\* The recognizer alone with the download-mode flag set, keeping the runs of
\* the primary combination that start away from idle.
InitCombo ==
    /\ Init
    /\ download_mode = TRUE

NextCombo ==
    \/ \E code \in Codes, value \in Values :
           /\ oem_check_force_dump_key(code, value)
           /\ feeds' = FeedsNext(feeds, state, Ev(code, value), download_mode)
    \/ key_debug_stmt

SpecCombo == InitCombo /\ [][NextCombo]_vars

----------------------------------------------------------------------------
\* vbswap_helper.c: the swap bring-up, run once from a delayed work item.

\* while (ret && (retries++ < 25)) with the increment before the test.
RetryAgain_PreIncrement(r, n) == r # 0 /\ n + 1 < 25

\* while (ret && (retries++ < 25)): the test reads retries before the
\* increment, which happens only when ret is nonzero.
RetryAgain(r, n) == r # 0 /\ n < 25

\* What call_usermodehelper(..., UMH_WAIT_PROC) returns: 0, a negative
\* errno, or the exit status of the command.
ShResults == {0, -2, 256}

\* alloc_memory(size) with its kmalloc calls failing as fail says: 0 none,
\* 1 the array, i + 1 the buffer of element i.  On a failed element the
\* array is freed and NULL returned; the earlier buffers are not touched.
alloc_memory(size, fail) ==
    IF fail = 1 THEN [argv |-> <<>>, heap |-> NoHeap]
    ELSE IF fail > 1
    THEN [argv |-> <<>>,
          heap |-> [arr |-> "freed",
                    str |-> [i \in 1..size |-> IF i < fail - 1 THEN "live" ELSE "none"]]]
    ELSE [argv |-> [i \in 1..size |-> i],
          heap |-> [arr |-> "live", str |-> [i \in 1..size |-> "live"]]]

\* kfree(p) of an element pointer: nothing for NULL (0); a buffer that is
\* not live ends up "twice".
kfree(h, p) ==
    IF p = 0 THEN h
    ELSE [h EXCEPT !.str[p] = IF @ = "live" THEN "freed" ELSE "twice"]

\* free_memory(argv, size): kfree(argv[i]) for each i, then kfree(argv).
RECURSIVE free_elements(_, _, _, _)
free_elements(h, av, i, size) ==
    IF i > size THEN h ELSE free_elements(kfree(h, av[i]), av, i + 1, size)

free_memory(h, av, size) ==
    [free_elements(h, av, 1, size) EXCEPT !.arr = IF @ = "live" THEN "freed" ELSE "twice"]

\* get_enforce_value() reads the enforcing state; set_selinux(v) stores v.
get_enforce_value(e) == e

set_selinux(v) == v # 0

\* linux_sh(command): the three strcpy fill argv[0..2], argv[3] = NULL
\* drops the pointer the fourth slot held, and the command runs.
linux_sh_argv(av) == [av EXCEPT ![4] = 0]

swapRest == <<coreVars, chanVars, taskVars, mark, feeds, lifeVars, sysfsVars>>

\* argv = alloc_memory(STANDARD_SIZE); if (!argv) return;
vbswap_alloc(fail) ==
    /\ vpc = "start"
    /\ argv' = alloc_memory(STANDARD_SIZE, fail).argv
    /\ heap' = alloc_memory(STANDARD_SIZE, fail).heap
    /\ vpc' = IF argv' = <<>> THEN "done" ELSE "enforce"
    /\ UNCHANGED <<enforcing, is_enforcing, retries, ret, cmdlog, sel_log>>
    /\ UNCHANGED swapRest

\* is_enforcing = get_enforce_value(); if (is_enforcing) set_selinux(0);
vbswap_enforce ==
    /\ vpc = "enforce"
    /\ is_enforcing' = get_enforce_value(enforcing)
    /\ IF is_enforcing'
       THEN /\ enforcing' = set_selinux(0)
            /\ sel_log' = sel_log \o <<[op |-> "read", v |-> enforcing],
                                       [op |-> "write", v |-> set_selinux(0)]>>
       ELSE /\ enforcing' = enforcing
            /\ sel_log' = Append(sel_log, [op |-> "read", v |-> enforcing])
    /\ retries' = 0
    /\ vpc' = "disksize"
    /\ UNCHANGED <<argv, heap, ret, cmdlog>>
    /\ UNCHANGED swapRest

\* One round of the do-while of vbswap_helper: the disksize command,
\* msleep(DELAY) if it failed, and the loop test.
vbswap_disksize(r) ==
    /\ vpc = "disksize"
    /\ argv' = linux_sh_argv(argv)
    /\ ret' = r
    /\ cmdlog' = Append(cmdlog, [cmd |-> "disksize", ok |-> r = 0, slept |-> r # 0])
    /\ retries' = IF r # 0 THEN retries + 1 ELSE retries
    /\ vpc' = IF RetryAgain(r, retries) THEN "disksize" ELSE "mkswap"
    /\ UNCHANGED <<heap, enforcing, is_enforcing, sel_log>>
    /\ UNCHANGED swapRest

\* linux_sh("/system/bin/mkswap /dev/block/vbswap0"); its result is dropped.
vbswap_mkswap(r) ==
    /\ vpc = "mkswap"
    /\ argv' = linux_sh_argv(argv)
    /\ cmdlog' = Append(cmdlog, [cmd |-> "mkswap", ok |-> r = 0, slept |-> FALSE])
    /\ vpc' = "swapon"
    /\ UNCHANGED <<heap, enforcing, is_enforcing, retries, ret, sel_log>>
    /\ UNCHANGED swapRest

\* linux_sh("/system/bin/swapon /dev/block/vbswap0"); its result is dropped.
vbswap_swapon(r) ==
    /\ vpc = "swapon"
    /\ argv' = linux_sh_argv(argv)
    /\ cmdlog' = Append(cmdlog, [cmd |-> "swapon", ok |-> r = 0, slept |-> FALSE])
    /\ vpc' = "restore"
    /\ UNCHANGED <<heap, enforcing, is_enforcing, retries, ret, sel_log>>
    /\ UNCHANGED swapRest

\* The restore that writes whatever was read.
vbswap_restore_Always ==
    /\ vpc = "restore"
    /\ enforcing' = set_selinux(1)
    /\ sel_log' = Append(sel_log, [op |-> "write", v |-> set_selinux(1)])
    /\ vpc' = "free"
    /\ UNCHANGED <<argv, heap, is_enforcing, retries, ret, cmdlog>>
    /\ UNCHANGED swapRest

\* if (is_enforcing) set_selinux(1);
vbswap_restore ==
    /\ vpc = "restore"
    /\ IF is_enforcing
       THEN /\ enforcing' = set_selinux(1)
            /\ sel_log' = Append(sel_log, [op |-> "write", v |-> set_selinux(1)])
       ELSE UNCHANGED <<enforcing, sel_log>>
    /\ vpc' = "free"
    /\ UNCHANGED <<argv, heap, is_enforcing, retries, ret, cmdlog>>
    /\ UNCHANGED swapRest

\* free_memory(argv, STANDARD_SIZE); the static argv keeps its value.
vbswap_free ==
    /\ vpc = "free"
    /\ heap' = free_memory(heap, argv, STANDARD_SIZE)
    /\ vpc' = "done"
    /\ UNCHANGED <<argv, enforcing, is_enforcing, retries, ret, cmdlog, sel_log>>
    /\ UNCHANGED swapRest

vbswap_helper ==
    \/ \E r \in ShResults : vbswap_disksize(r)
    \/ \E r \in ShResults : vbswap_mkswap(r)
    \/ \E r \in ShResults : vbswap_swapon(r)

vbswap_init ==
    \/ \E fail \in 0..(STANDARD_SIZE + 1) : vbswap_alloc(fail)
    \/ vbswap_enforce
    \/ vbswap_helper
    \/ vbswap_restore
    \/ vbswap_free

\* The work item has not run; the enforcing state is either.
InitSwap ==
    /\ state = "NONE"
    /\ kpc = 0
    /\ download_mode = FALSE
    /\ panicked = FALSE
    /\ selinux_switch = 0
    /\ message_state = MessageStateInit
    /\ work_pending = FALSE
    /\ wpc = "idle"
    /\ nl_sk = TRUE
    /\ fd = FdInit
    /\ last = NoEvent
    /\ effs = {}
    /\ path = <<>>
    /\ enqLog = <<>>
    /\ runs = 0
    /\ calls = <<>>
    /\ seen = <<>>
    /\ fed = 0
    /\ serial_effects = 0
    /\ endpoints = {}
    /\ rx = NoMsg
    /\ peer = NoPeer
    /\ sync_calls = <<>>
    /\ tasks = IdleTable
    /\ pwr_status = KEY_RELEASED
    /\ vol_up_status = KEY_RELEASED
    /\ req = NoReq
    /\ mark = NoMark
    /\ feeds = {}
    /\ LifeUp
    /\ SysfsInit
    /\ SwapIdle
    /\ enforcing \in BOOLEAN

\* The work item runs to its end: every command it waits for returns.
SpecSwap == InitSwap /\ [][vbswap_init]_vars /\ WF_vars(vbswap_init)

----------------------------------------------------------------------------
\* drm_sysfs.c: the store handlers of the numeric controls.

EINVAL == 22

ERANGE == 34

INT_MAX == 2147483647

Digits == <<"0", "1", "2", "3", "4", "5", "6", "7", "8", "9">>

IsDigit(c) == \E d \in 1..10 : Digits[d] = c

DigitVal(c) == (CHOOSE d \in 1..10 : Digits[d] = c) - 1

\* The leading decimal digits of str from position i on, folded into acc;
\* over is set once the value has passed INT_MAX.  Yields the value, the
\* overflow flag and the position after the last digit.
RECURSIVE parse_integer(_, _, _, _)
parse_integer(str, i, acc, over) ==
    IF i > Len(str) \/ ~IsDigit(str[i])
    THEN [val |-> acc, over |-> over, next |-> i]
    ELSE LET d == DigitVal(str[i])
             o == over \/ acc > (INT_MAX - d) \div 10
         IN parse_integer(str, i + 1, IF o THEN 0 ELSE acc * 10 + d, o)

\* kstrtoint(buf, 10, &res): an optional sign, at least one digit, an
\* optional newline and the end of the string; -ERANGE for a value that
\* does not fit an int.  res is written only when 0 is returned.
kstrtoint(buf) ==
    LET signed == Len(buf) > 0 /\ buf[1] \in {"-", "+"}
        first == IF signed THEN 2 ELSE 1
        p == parse_integer(buf, first, 0, FALSE)
        rest == SubSeq(buf, p.next, Len(buf))
    IN IF p.next = first \/ rest \notin {<<>>, <<"\n">>}
       THEN [err |-> -EINVAL, val |-> 0]
       ELSE IF p.over THEN [err |-> -ERANGE, val |-> 0]
       ELSE [err |-> 0, val |-> IF signed /\ buf[1] = "-" THEN -p.val ELSE p.val]

\* What userspace writes to a control.
Bufs ==
    { <<"-", "3">>, <<"-", "3", "\n">>, <<"x">>, <<"1", "x">>, <<"\n">>,
      <<"9", "9", "9", "9", "9", "9", "9", "9", "9", "9", "9">> }

sysfsRest == <<coreVars, chanVars, taskVars, mark, feeds, lifeVars, swapVars>>

\* ret = kstrtoint(buf, 10, &global); if (ret) { pr_err(...); return ret; }
\* return count;
StoreOrFail(attr, buf) ==
    LET r == kstrtoint(buf)
    IN /\ attrs' = IF r.err = 0 THEN [attrs EXCEPT ![attr] = r.val] ELSE attrs
       /\ store' = [attr |-> attr, buf |-> buf, err |-> r.err, before |-> attrs[attr],
                    setter |-> FALSE, ret |-> IF r.err # 0 THEN r.err ELSE Len(buf)]
       /\ UNCHANGED sysfsRest

\* ret = kstrtoint(buf, 10, &global); if (ret) pr_err(...); return count;
StoreAndCount(attr, buf) ==
    LET r == kstrtoint(buf)
    IN /\ attrs' = IF r.err = 0 THEN [attrs EXCEPT ![attr] = r.val] ELSE attrs
       /\ store' = [attr |-> attr, buf |-> buf, err |-> r.err, before |-> attrs[attr],
                    setter |-> FALSE, ret |-> Len(buf)]
       /\ UNCHANGED sysfsRest

\* acl_store parses into a local and hands it to dsi_display_set_acl_mode,
\* which sets the panel's mode or fails (ok); count is returned either way.
acl_store(buf, ok) ==
    LET r == kstrtoint(buf)
    IN /\ attrs' = IF r.err = 0 /\ ok THEN [attrs EXCEPT !["acl"] = r.val] ELSE attrs
       /\ store' = [attr |-> "acl", buf |-> buf, err |-> r.err, before |-> attrs["acl"],
                    setter |-> r.err = 0, ret |-> IF r.err # 0 THEN r.err ELSE Len(buf)]
       /\ UNCHANGED sysfsRest

dsi_cmd_log_switch_store(buf) == StoreOrFail("dsi_cmd_log_switch", buf)

dim_alpha_store(buf) == StoreAndCount("dim_alpha", buf)

dimlayer_bl_en_store(buf) == StoreAndCount("dimlayer_bl_en", buf)

dither_en_store(buf) == StoreOrFail("dither_en", buf)

dp_en_store(buf) == StoreAndCount("dp_en", buf)

NextSysfs ==
    \/ \E buf \in Bufs, ok \in BOOLEAN : acl_store(buf, ok)
    \/ \E buf \in Bufs : dsi_cmd_log_switch_store(buf)
    \/ \E buf \in Bufs : dim_alpha_store(buf)
    \/ \E buf \in Bufs : dimlayer_bl_en_store(buf)
    \/ \E buf \in Bufs : dither_en_store(buf)
    \/ \E buf \in Bufs : dp_en_store(buf)

SpecSysfs == Init /\ [][NextSysfs]_vars

----------------------------------------------------------------------------
\* module_init(op_netlink_init) and module_exit(op_netlink_exit).

lifeRest == <<state, kpc, download_mode, panicked, selinux_switch, message_state,
              work_pending, wpc, fd, last, effs, path, enqLog, runs, calls, seen, fed,
              serial_effects, chanVars, taskVars, mark, feeds, sysfsVars, swapVars>>

\* op_netlink_init: netlink_kernel_create, then create_singlethread_workqueue,
\* then INIT_WORK; a failed creation returns 1 with the rest left undone.
\* The handler is exported to the key drivers whatever op_netlink_init
\* returned.
op_netlink_init(sock_ok, wq_ok) ==
    /\ lpc = "boot"
    /\ nl_sk' = sock_ok
    /\ smg_workwq' = (sock_ok /\ wq_ok)
    /\ smg_work' = (sock_ok /\ wq_ok)
    /\ lpc' = IF sock_ok /\ wq_ok THEN "up" ELSE "failed"
    /\ UNCHANGED <<sock_released, oops>>
    /\ UNCHANGED lifeRest

\* op_netlink_exit, first statement: if (nl_sk != NULL)
\* sock_release(nl_sk->sk_socket); nl_sk keeps its value.
op_netlink_exit_release ==
    /\ lpc \in {"up", "failed"}
    /\ ~oops
    /\ sock_released' = nl_sk
    /\ lpc' = "released"
    /\ UNCHANGED <<nl_sk, smg_workwq, smg_work, oops>>
    /\ UNCHANGED lifeRest

\* op_netlink_exit, second statement: if (smg_workwq != NULL)
\* destroy_workqueue(smg_workwq), which returns once the queued item has run.
op_netlink_exit_destroy ==
    /\ lpc = "released"
    /\ smg_workwq => (~work_pending /\ wpc = "idle")
    /\ smg_workwq' = FALSE
    /\ lpc' = "down"
    /\ UNCHANGED <<nl_sk, smg_work, sock_released, oops>>
    /\ UNCHANGED lifeRest

op_netlink_exit == op_netlink_exit_release \/ op_netlink_exit_destroy

\* The statics as the loader leaves them, before op_netlink_init.
InitLife ==
    /\ state = "NONE"
    /\ kpc = 0
    /\ download_mode = FALSE
    /\ panicked = FALSE
    /\ selinux_switch = 0
    /\ message_state = MessageStateInit
    /\ work_pending = FALSE
    /\ wpc = "idle"
    /\ nl_sk = FALSE
    /\ fd = FdInit
    /\ last = NoEvent
    /\ effs = {}
    /\ path = <<>>
    /\ enqLog = <<>>
    /\ runs = 0
    /\ calls = <<>>
    /\ seen = <<>>
    /\ fed = 0
    /\ serial_effects = 0
    /\ endpoints = {}
    /\ rx = NoMsg
    /\ peer = NoPeer
    /\ sync_calls = <<>>
    /\ tasks = IdleTable
    /\ pwr_status = KEY_RELEASED
    /\ vol_up_status = KEY_RELEASED
    /\ req = NoReq
    /\ mark = NoMark
    /\ feeds = {}
    /\ lpc = "boot"
    /\ smg_workwq = FALSE
    /\ smg_work = FALSE
    /\ sock_released = FALSE
    /\ oops = FALSE
    /\ SysfsInit
    /\ SwapIdle
    /\ enforcing = TRUE

\* Key events and direct requests arrive while the module is loaded.
NextLife ==
    \/ \E sock_ok \in BOOLEAN, wq_ok \in BOOLEAN : op_netlink_init(sock_ok, wq_ok)
    \/ \E code \in Codes, value \in Values :
           /\ lpc \in {"up", "failed", "released"}
           /\ oem_check_force_dump_key(code, value)
           /\ UNCHANGED feeds
    \/ key_debug_stmt
    \/ send_msg_worker
    \/ lpc \in {"up", "failed", "released"} /\ send_msg_sync_mdm_dump
    \/ op_netlink_exit

SpecLife == InitLife /\ [][NextLife]_vars

----------------------------------------------------------------------------
\* Vocabulary of the properties.

Handled == last.code # "NO_KEY"

LastEv == Ev(last.code, last.value)

StepName == <<"STEP1", "STEP2", "STEP3", "STEP4", "STEP5", "STEP6",
              "STEP7", "STEP8", "STEP9", "STEP10", "STEP11">>

StepIndex(s) == CHOOSE k \in 1..Len(StepName) : StepName[k] = s

\* The documented continuations of each recognizer state.
Documented(s) ==
    IF s = "NONE" THEN {FullSeq[1]}
    ELSE IF s = "STEP_DEBUG1" THEN {PowerDown, Ev(KEY_VOLUMEDOWN, 0)}
    ELSE {FullSeq[StepIndex(s) + 1]}
         \cup (IF s = "STEP10" THEN {Ev(KEY_VOLUMEDOWN, 1)} ELSE {})

\* The documented successor of s on a documented continuation e.
DocSucc(s, e) ==
    IF s = "NONE" THEN "STEP1"
    ELSE IF s \in {"STEP11", "STEP_DEBUG1"} THEN "NONE"
    ELSE IF s = "STEP10" /\ e = Ev(KEY_VOLUMEDOWN, 1) THEN "STEP_DEBUG1"
    ELSE StepName[StepIndex(s) + 1]

LastEnq == enqLog[Len(enqLog)]

\* The send_msg calls of the worker's current (latest) run, as texts.
RunSends ==
    LET mine == SelectSeq(calls, LAMBDA c : c.run = runs /\ c.call = "send_msg")
    IN [i \in 1..Len(mine) |-> mine[i].text]

\* All send_msg calls so far, as texts.
AllSends ==
    LET all == SelectSeq(calls, LAMBDA c : c.call = "send_msg")
    IN [i \in 1..Len(all) |-> all[i].text]

InDebugPower(l) == l.from = "STEP_DEBUG1" /\ l.code = KEY_POWER /\ Pressed(l.value)

InDebugVolDown(l) == l.from = "STEP_DEBUG1" /\ l.code = KEY_VOLUMEDOWN /\ ~Pressed(l.value)

----------------------------------------------------------------------------
\* C1: an event that is not a documented continuation of a non-idle state
\* (wrong key, right key with the wrong pressed value, any other key)
\* leaves the recognizer in NONE and has no effect: no panic, no write to
\* selinux_switch or message_state, no queue_work.
C1_ResetOnMismatch ==
    (Handled /\ last.from # "NONE" /\ LastEv \notin Documented(last.from))
        => (state = "NONE" /\ kpc = 0 /\ effs = {} /\ ~panicked)

\* C1: POWER still pressed where STEP6 waits for its release.
C1_Witness ==
    /\ last.from = "STEP6" /\ last.code = KEY_POWER /\ Pressed(last.value)
    /\ state = "NONE"

\* C2: fed from idle, the k-th event of the primary combination (k = 1..11)
\* leaves the recognizer in STEPk with no effect, and the POWER press that
\* follows, with the download-mode flag true, panics and does nothing else.
C2_PrimaryCombo ==
    /\ \A k \in 1..Len(PrimarySeq) :
          fed = k => (state = StepName[k] /\ kpc = 0 /\ effs = {} /\ ~panicked)
    /\ (fed = Len(FullSeq) /\ last.dl) => (panicked /\ effs = {"panic"})

\* C2: the whole combination has been fed and the system has panicked.
C2_Witness == fed = Len(FullSeq) /\ panicked /\ path = FullSeq

\* C3: POWER pressed in STEP11 with the download-mode flag false has no
\* effect and returns the recognizer to NONE.
C3_Step11ResetsWhenDisabled ==
    (Handled /\ ForceDumpEvent(last.from, last.code, last.value) /\ ~last.dl)
        => (state = "NONE" /\ effs = {})

\* C4: whenever the system has panicked, the 12 most recent events are the
\* primary combination followed by the POWER press.
C4_PanicOnlyAfterExactCombo == panicked => path = FullSeq

\* C5: every completed transition into a non-idle state is the documented
\* edge: from the one documented predecessor on the one documented event,
\* and never from the state itself.
C5_SimplePathGraph ==
    (Handled /\ kpc = 0 /\ ~panicked /\ state # "NONE")
        => /\ state # last.from
           /\ LastEv \in Documented(last.from)
           /\ state = DocSucc(last.from, LastEv)

\* C6: the system panics only on an event that finds the recognizer in
\* STEP11, is POWER pressed, and reads the download-mode flag true.
C6_CrashGate ==
    panicked => /\ last.from = "STEP11"
                /\ last.code = KEY_POWER
                /\ Pressed(last.value)
                /\ last.dl
                /\ effs = {"panic"}

\* C6: a crash caused by an autorepeat event of the held POWER key.
C6_Witness == panicked /\ last.value = 2 /\ last.dl

\* C7: VOLUME_DOWN pressed in STEP10 enters STEP_DEBUG1; POWER pressed in
\* STEP_DEBUG1 stores 1 in selinux_switch, then 1 in message_state, then
\* queues the work and leaves the recognizer in NONE; message_state is never
\* 1 while selinux_switch is not.
C7_DebugPower ==
    /\ [](/\ (Handled /\ last.from = "STEP10" /\ LastEv = Ev(KEY_VOLUMEDOWN, 1))
                => state = "STEP_DEBUG1"
          /\ (InDebugPower(last) /\ kpc = 0)
                => /\ state = "NONE"
                   /\ selinux_switch = 1
                   /\ effs = {"set_oem_selinux_state", "message_state", "queue_work"}
                   /\ LastEnq.kind = 1
                   /\ (work_pending \/ runs > LastEnq.runs)
          /\ message_state = 1 => selinux_switch = 1)
    /\ [][(kpc' # kpc /\ InDebugPower(last'))
            => /\ ("message_state" \in effs' \ effs)
                    => (message_state' = 1 /\ selinux_switch = 1)
               /\ ("queue_work" \in effs' \ effs)
                    => (work_pending' /\ "message_state" \in effs)]_vars

\* C7: the POWER branch has finished and its work is still pending.
C7_Witness ==
    /\ InDebugPower(last) /\ kpc = 0 /\ state = "NONE"
    /\ selinux_switch = 1 /\ message_state = 1 /\ work_pending

\* C8: VOLUME_DOWN released in STEP_DEBUG1 stores 2 in message_state, queues
\* the work and leaves the recognizer in NONE; no step of that branch
\* changes selinux_switch.
C8_DebugVolDown ==
    /\ []((InDebugVolDown(last) /\ kpc = 0)
            => /\ state = "NONE"
               /\ effs = {"message_state", "queue_work"}
               /\ LastEnq.kind = 2
               /\ (work_pending \/ runs > LastEnq.runs))
    /\ [][(kpc' # kpc /\ InDebugVolDown(last'))
            => /\ selinux_switch' = selinux_switch
               /\ ("message_state" \in effs' \ effs) => message_state' = 2
               /\ ("queue_work" \in effs' \ effs) => work_pending']_vars

\* C8: the VOLUME_DOWN branch has finished with selinux_switch still 0.
C8_Witness ==
    /\ InDebugVolDown(last) /\ kpc = 0 /\ state = "NONE"
    /\ selinux_switch = 0 /\ message_state = 2 /\ work_pending

\* The enqueues so far are DebugEnabled and then OemForceSerial, the second
\* completed before the worker started, and no further one has begun.
TwoEnqueuesBeforeWorker ==
    /\ Len(enqLog) = 2 /\ kpc = 0
    /\ enqLog[1].kind = 1 /\ enqLog[2].kind = 2
    /\ enqLog[2].runs = 0

\* C9: when DebugEnabled and then OemForceSerial are enqueued before the
\* worker starts, the worker runs once, reads only 2, and send_msg is called
\* exactly once, with "ENABLE_OEM_FORCE_SERIAL"; "Enable DEBUG!" is never
\* passed to send_msg.
C9_LastWriterWins ==
    TwoEnqueuesBeforeWorker
        => /\ runs <= 1
           /\ \A i \in 1..Len(seen) : seen[i] = 2
           /\ \A i \in 1..Len(AllSends) : AllSends[i] = "ENABLE_OEM_FORCE_SERIAL"
           /\ Len(AllSends) <= 1
           /\ (wpc = "idle" /\ ~work_pending)
                => (runs = 1 /\ AllSends = <<"ENABLE_OEM_FORCE_SERIAL">>)

\* C9: both enqueues done, then the worker has run and the queue is empty.
C9_Witness == TwoEnqueuesBeforeWorker /\ wpc = "idle" /\ ~work_pending /\ runs = 1

\* C10: a worker run calls send_msg at most once: with "Enable DEBUG!" when
\* its first test reads 1, else with "ENABLE_OEM_FORCE_SERIAL" when its
\* second test reads 2, else not at all; and its last step stores 0 in
\* message_state.
C10_WorkerMapping ==
    /\ [](/\ Len(RunSends) <= 1
          /\ (runs > 0 /\ wpc \in {"reset", "idle"})
                => RunSends = (IF seen[1] = 1 THEN <<"Enable DEBUG!">>
                               ELSE IF seen[2] = 2 THEN <<"ENABLE_OEM_FORCE_SERIAL">>
                               ELSE <<>>))
    /\ [][(wpc # "idle" /\ wpc' = "idle") => message_state' = 0]_vars

\* C10: a run that read DebugEnabled and passed "Enable DEBUG!" to send_msg.
C10_Witness ==
    /\ runs > 0 /\ wpc = "idle" /\ seen = <<1>>
    /\ RunSends = <<"Enable DEBUG!">> /\ message_state = 0

----------------------------------------------------------------------------
\* Vocabulary of the channel claims.

\* The send_msg calls made by the step at hand, by either caller.
IssuedSends ==
    {calls'[i] : i \in (Len(calls) + 1)..Len(calls')}
        \cup {sync_calls'[i] : i \in (Len(sync_calls) + 1)..Len(sync_calls')}

\* "Malformed" as the contract words it: a length field below the header size,
\* or a buffer shorter than the length the header declares.
Malformed(m) == m.nlmsg_len < NLMSG_HDRLEN \/ m.skb_len < m.nlmsg_len

\* C11: receiving a well-formed inbound message sets fd to that message's
\* sender id, whatever address was cached before, and every send issued
\* from then until the next receive is addressed to exactly that sender id.
C11_SendsFollowLatestSender ==
    [][/\ \A m \in Msgs : (recv_nlmsg(m) /\ ~Malformed(m)) => fd' = m.nlmsg_pid
       /\ peer # NoPeer => \A c \in IssuedSends : c.to = peer[1]]_vars

\* C11: one peer was learned and sent to, then another was learned over it
\* and the next send went to the new one.
C11_Witness ==
    /\ Len(sync_calls) = 2
    /\ sync_calls[1].to = 0
    /\ sync_calls[2].to = 1234
    /\ peer = <<1234>>
    /\ fd = 1234

\* C12 as stated: while no inbound message has ever been received, every
\* send_msg call addresses its message to peer address 0.
C12_SendsToZeroBeforeAnyInbound ==
    rx = NoMsg => \A i \in 1..Len(sync_calls) : sync_calls[i].to = 0

\* C12, amended: while no inbound message has ever been received, every
\* send_msg call addresses its message to the initial value of fd, which is
\* -1 (port id 0xFFFFFFFF) and not 0.
C12_SendsToInitialFdBeforeAnyInbound ==
    rx = NoMsg => \A i \in 1..Len(sync_calls) : sync_calls[i].to = -1

\* C12: two sends were made and no inbound message has been received.
C12_Witness == rx = NoMsg /\ Len(sync_calls) = 2

\* C13: a send issued before any inbound message has been received returns
\* without a panic, leaves the recognizer state, DebugSwitch, the pending
\* kind, the worker's pending bit, the socket and the cached address as they
\* were, and delivers nothing to any userspace socket.
C13_SendBeforeInboundIsInert ==
    [][(rx = NoMsg /\ IssuedSends # {}) =>
          /\ UNCHANGED <<state, selinux_switch, message_state, work_pending, wpc,
                         panicked, nl_sk, fd, endpoints, rx, peer, serial_effects>>
          /\ \A c \in IssuedSends : ~Delivered(c, endpoints')]_vars

\* C13: a message was handed to netlink_unicast before any inbound message.
C13_Witness ==
    /\ rx = NoMsg
    /\ ~panicked
    /\ Len(sync_calls) >= 1
    /\ sync_calls[1].tx
    /\ ~Delivered(sync_calls[1], endpoints)

\* C14: a malformed inbound message (length field below the header size, or
\* buffer shorter than the declared length) is dropped: recv_nlmsg changes
\* neither fd nor any other program state, and a send that follows it still
\* goes to the address learned before.
C14_MalformedIsDropped ==
    [][/\ \A m \in Msgs :
             (recv_nlmsg(m) /\ Malformed(m)) =>
                 UNCHANGED <<coreVars, sync_calls, peer, taskVars>>
       /\ (Malformed(rx) /\ peer # NoPeer) => \A c \in IssuedSends : c.to = peer[1]]_vars

\* C14: a peer was learned, a malformed message naming another sender came
\* in, and a send went to the learned peer.
C14_Witness ==
    /\ Malformed(rx)
    /\ rx.nlmsg_pid = 0
    /\ peer = <<1234>>
    /\ fd = 1234
    /\ Len(sync_calls) >= 1
    /\ sync_calls[Len(sync_calls)].to = 1234

----------------------------------------------------------------------------
\* Vocabulary of the capture claims, in the claims' words.

HasPrefix(str, pre) == Len(str) >= Len(pre) /\ SubSeq(str, 1, Len(pre)) = pre

\* The task's command name equals the requested name.
NameEquals(t, name) == t.comm = name

\* The four conjuncts of the heuristic.
HeuristicHolds(t) ==
    /\ HasPrefix(t.comm, <<"B", "i", "n", "d", "e", "r", ":">>)
    /\ t.pid = t.leader_pid
    /\ t.uid = 1000
    /\ t.parent = <<"m", "a", "i", "n">>

\* The positions of a scan whose task has the requested name.
ExactHits(scan, name) == {k \in 1..Len(scan) : NameEquals(scan[k], name)}

\* The positions of a scan whose task satisfies the heuristic only.
HeurOnlyHits(scan, name) ==
    {k \in 1..Len(scan) : HeuristicHolds(scan[k]) /\ ~NameEquals(scan[k], name)}

\* The positions of a scan whose task matches by name or by the heuristic.
AnyHits(scan, name) == ExactHits(scan, name) \cup HeurOnlyHits(scan, name)

\* The positions of a scan the latest request signalled.
Selected(scan) ==
    {k \in 1..Len(scan) : \E i \in 1..Len(req.sent) : req.sent[i].pid = scan[k].pid}

\* C15 as stated: the locator of send_sig_to_get_trace selects the
\* exact-name task when the table holds both an exact-name task and a
\* heuristic-only task, whatever their order; a heuristic-only task when
\* only such tasks exist; nothing when neither exists.
C15_ExactNameHasPriority ==
    req.fn = "send_sig_to_get_trace" =>
        LET scan == ThreadScan(tasks)
            exact == ExactHits(scan, req.name)
            heur == HeurOnlyHits(scan, req.name)
        IN /\ (exact # {} /\ heur # {}) => Selected(scan) # {} /\ Selected(scan) \subseteq exact
           /\ (exact = {} /\ heur # {}) => Selected(scan) # {} /\ Selected(scan) \subseteq heur
           /\ (exact = {} /\ heur = {}) => req.sent = <<>>

\* C16: find_task_by_name(t, name) is true exactly when t's command name
\* equals name, or t's name begins with "Binder:", t is its own thread-group
\* leader, t's owner uid is 1000 and t has a parent named "main"; with the
\* name differing and any one of the four false, the task does not match.
\* Checked for every task of the task list against every requested name,
\* and on the task the latest trace request signalled.
C16_MatchPredicate ==
    LET scan == ThreadScan(tasks)
    IN /\ \A k \in 1..Len(scan), name \in Names :
              find_task_by_name(scan[k], name)
                  <=> (NameEquals(scan[k], name) \/ HeuristicHolds(scan[k]))
       /\ req.fn = "send_sig_to_get_trace" =>
              \A k \in Selected(scan) :
                  NameEquals(scan[k], req.name) \/ HeuristicHolds(scan[k])

\* C16: a trace request signalled a task whose name differs from the
\* requested one, and the list also holds a second thread that has the
\* prefix, the uid and the parent but is not a group leader.
C16_Witness ==
    LET scan == ThreadScan(tasks)
    IN /\ req.fn = "send_sig_to_get_trace"
       /\ \E k \in Selected(scan) : ~NameEquals(scan[k], req.name)
       /\ \E k \in 1..Len(scan) :
              /\ scan[k].pid # scan[k].leader_pid
              /\ HasPrefix(scan[k].comm, BinderPrefix)
              /\ scan[k].uid = SystemUid
              /\ scan[k].parent = MainName

\* What a sender must have done over a scan: nothing when no task matches,
\* else one signal, of the given number, to the first match of the scan.
OneSignalToFirst(scan, hits, sig) ==
    IF hits = {}
    THEN req.sent = <<>>
    ELSE /\ Len(req.sent) = 1
         /\ req.sent[1].sig = sig
         /\ \E k \in hits :
                /\ \A h \in hits : k <= h
                /\ req.sent[1].pid = scan[k].pid
                /\ req.sent[1].tgid = scan[k].leader_pid

\* C17: when no task matches, send_sig_to_get_trace and
\* send_sig_to_get_tombstone deliver no signal and return; when at least one
\* matches, each call delivers exactly one signal, to the first match in
\* scan order only: SIGQUIT for the trace, the debugger signal (a different
\* number) for the tombstone.
C17_OneSignalOrNone ==
    /\ req.fn = "send_sig_to_get_trace" =>
           OneSignalToFirst(ThreadScan(tasks), AnyHits(ThreadScan(tasks), req.name), 3)
    /\ req.fn = "send_sig_to_get_tombstone" =>
           OneSignalToFirst(ProcessScan(tasks), ExactHits(ProcessScan(tasks), req.name), 35)

\* C17: a trace request over a list with two matching tasks signalled one.
C17_Witness ==
    /\ req.fn = "send_sig_to_get_trace"
    /\ Len(req.sent) = 1
    /\ Cardinality(AnyHits(ThreadScan(tasks), req.name)) = 2

\* C18: compound_key_to_get_trace and compound_key_to_get_tombstone deliver
\* a signal only if, at the request, both the POWER status and the VOLUME_UP
\* status are pressed, and none if either is not; with both pressed they do
\* what the sender they gate does.  The outcome is the same in every
\* recognizer state, and the request changes neither that state nor anything
\* else of the recognizer and the notifier.
C18_LevelGate ==
    [][\A name \in {req'.name} \cap Names :
          /\ compound_key_to_get_trace(name) =>
                 /\ req'.sent = IF pwr_status = "KEY_PRESSED" /\ vol_up_status = "KEY_PRESSED"
                                THEN TraceSignals(tasks, name) ELSE <<>>
                 /\ UNCHANGED <<state, selinux_switch, message_state, work_pending>>
          /\ compound_key_to_get_tombstone(name) =>
                 /\ req'.sent = IF pwr_status = "KEY_PRESSED" /\ vol_up_status = "KEY_PRESSED"
                                THEN TombstoneSignals(tasks, name) ELSE <<>>
                 /\ UNCHANGED <<state, selinux_switch, message_state, work_pending>>]_vars

\* C18: in the middle of the primary combo, with both keys held, a trace was
\* requested through the gate and a signal was sent.
C18_Witness ==
    /\ state = "STEP6"
    /\ pwr_status = KEY_PRESSED
    /\ vol_up_status = KEY_PRESSED
    /\ req.fn = "compound_key_to_get_trace"
    /\ Len(req.sent) = 1

\* C19: send_msg_sync_mdm_dump sends in its caller's context: each call
\* passes the text "FORCE_MDM_DUMP_SYNC" to send_msg, addressed to the
\* address cached at that moment, whatever the pending kind and the
\* recognizer state are, and it neither schedules the worker nor changes the
\* pending kind, the recognizer state or DebugSwitch.
C19_SyncIsDirect ==
    [][sync_calls' # sync_calls =>
          /\ Len(sync_calls') = Len(sync_calls) + 1
          /\ SubSeq(sync_calls', 1, Len(sync_calls)) = sync_calls
          /\ sync_calls'[Len(sync_calls')].call = "send_msg"
          /\ sync_calls'[Len(sync_calls')].text = "FORCE_MDM_DUMP_SYNC"
          /\ sync_calls'[Len(sync_calls')].to = fd
          /\ UNCHANGED <<work_pending, wpc, runs, calls, message_state, state,
                         selinux_switch, fd>>]_vars

\* C19: the modem-dump message was sent while an OemForceSerial was pending
\* and the worker scheduled, and both are still so.
C19_Witness ==
    /\ Len(sync_calls) = 1
    /\ sync_calls[1].text = SyncText
    /\ sync_calls[1].tx
    /\ message_state = 2
    /\ work_pending
    /\ state = "NONE"
    /\ Len(enqLog) = 1
    /\ runs = 0

\* The calls of the worker's current (latest) run, by name, in order.
RunCallNames ==
    LET mine == SelectSeq(calls, LAMBDA c : c.run = runs)
    IN [i \in 1..Len(mine) |-> mine[i].call]

----------------------------------------------------------------------------
\* C27: send_sig_to_get_tombstone scans process-level entries with the
\* exact-name test only: every task it signals is a group leader whose name
\* equals the requested name, so a task that satisfies only the heuristic
\* never gets its signal.  send_sig_to_get_trace, scanning all threads,
\* selects a heuristic-only task, whose name differs from the requested
\* one, whenever such a task is the first match of its scan.
C27_TombstoneIsExactOnly ==
    LET scan == ThreadScan(tasks)
        any == AnyHits(scan, req.name)
    IN /\ req.fn = "send_sig_to_get_tombstone" =>
              \A k \in Selected(scan) :
                  /\ NameEquals(scan[k], req.name)
                  /\ scan[k].pid = scan[k].leader_pid
                  /\ k \notin HeurOnlyHits(scan, req.name)
       /\ (req.fn = "send_sig_to_get_trace" /\ any # {}) =>
              LET first == CHOOSE k \in any : \A h \in any : k <= h
              IN first \in HeurOnlyHits(scan, req.name) =>
                     /\ Selected(scan) = {first}
                     /\ scan[first].comm # req.name

\* C27: a tombstone request over a list whose only match is a process that
\* satisfies the heuristic alone sent no signal.
C27_Witness ==
    /\ req.fn = "send_sig_to_get_tombstone"
    /\ req.sent = <<>>
    /\ HeurOnlyHits(ProcessScan(tasks), req.name) # {}
    /\ ExactHits(ThreadScan(tasks), req.name) = {}

----------------------------------------------------------------------------
\* A step of oem_check_force_dump_key: only the handler writes these.
HandlerStep == <<state, kpc, last, effs, path, fed, panicked>>' # <<state, kpc, last, effs, path, fed, panicked>>

\* The crash at STEP11: POWER pressed with the download-mode flag set.
InCrash(l) == l.from = "STEP11" /\ l.code = KEY_POWER /\ Pressed(l.value) /\ l.dl

\* C26: the only recognizer transitions that modify anything besides the
\* recognizer state are the two terminal transitions out of STEP_DEBUG1 and
\* the crash at STEP11: every other step of the handler leaves DebugSwitch
\* (selinux_switch), the pending kind (message_state), the queueing of the
\* work item and the crash flag unchanged; no step of the handler changes
\* the cached peer address (fd); and the handler writes no value other than
\* 1 to DebugSwitch, which it never clears.
C26_RecognizerFrame ==
    [][HandlerStep =>
          /\ fd' = fd
          /\ ~(InDebugPower(last') \/ InDebugVolDown(last') \/ InCrash(last')) =>
                 UNCHANGED <<selinux_switch, message_state, work_pending, enqLog, panicked>>
          /\ "set_oem_selinux_state" \in effs' \ effs => selinux_switch' = 1
          /\ selinux_switch' \in {selinux_switch, 1}
          /\ selinux_switch = 1 => selinux_switch' = 1]_vars

\* C26: with DebugSwitch set, a kind pending and the work item queued by a
\* finished STEP_DEBUG1 transition, the recognizer has gone on from STEP1 to
\* STEP2 and all three are as that transition left them.
C26_Witness ==
    /\ selinux_switch = 1
    /\ message_state = 1
    /\ work_pending
    /\ last.from = "STEP1"
    /\ state = "STEP2"

----------------------------------------------------------------------------
\* C25: the event that causes a reset is consumed and never taken for the
\* first step, so the primary combination is recognized only when its first
\* event meets the recognizer idle: for every non-idle state the first event
\* can meet, feeding the twelve events of the combination with the
\* download-mode flag set produces no forced dump at any of them (a run
\* that began away from idle never ends in the panic), and VOLUME_UP pressed
\* in STEP1 leaves the recognizer idle, not in STEP1.
C25_NoResynchronisation ==
    /\ \A a \in feeds : (a.from # "NONE" /\ a.dl) => (~panicked /\ "panic" \notin effs)
    /\ (last.from = "STEP1" /\ LastEv = FullSeq[1]) => state = "NONE"

\* C25: all twelve events have been fed, the first of them to a recognizer
\* in STEP1, with the flag set throughout, and nothing has crashed.
C25_Witness ==
    /\ \E a \in feeds : a.from = "STEP1" /\ a.n = Len(FullSeq) /\ a.dl
    /\ last.dl
    /\ ~panicked

----------------------------------------------------------------------------
\* Vocabulary of the swap bring-up claims.

\* The positions of cmdlog that hold a run of the named command.
RunsOf(cmd) == {k \in 1..Len(cmdlog) : cmdlog[k].cmd = cmd}

\* vbswap_helper has returned.
HelperReturned == vpc \in {"restore", "free", "done"} /\ cmdlog # <<>>

\* C22: vbswap_helper runs the disksize command and on failure runs it
\* again, up to 25 times more (26 attempts at most), sleeping the fixed delay
\* after each failure and after nothing else, and stops at the first
\* success; it always terminates, and then runs mkswap and swapon exactly
\* once each, in that order, whether or not disksize or mkswap succeeded.
C22_BoundedRetry ==
    /\ [](/\ Cardinality(RunsOf("disksize")) <= 26
          /\ \A k \in 1..Len(cmdlog) :
                 cmdlog[k].slept <=> (cmdlog[k].cmd = "disksize" /\ ~cmdlog[k].ok)
          /\ \A k \in RunsOf("disksize") : cmdlog[k].ok => k + 1 \notin RunsOf("disksize")
          /\ vpc \in {"mkswap", "swapon", "restore", "free"} =>
                 LET d == Cardinality(RunsOf("disksize"))
                 IN /\ RunsOf("disksize") = 1..d
                    /\ d >= 1
                    /\ \A k \in 1..(d - 1) : ~cmdlog[k].ok
                    /\ ~cmdlog[d].ok => d = 26
          /\ HelperReturned =>
                 /\ Len(cmdlog) = Cardinality(RunsOf("disksize")) + 2
                 /\ cmdlog[Len(cmdlog) - 1].cmd = "mkswap"
                 /\ cmdlog[Len(cmdlog)].cmd = "swapon")
    /\ (vpc = "disksize") ~> HelperReturned

\* C22: the disksize command failed 26 times, mkswap failed, and swapon has
\* been run all the same.
C22_Witness ==
    /\ HelperReturned
    /\ Cardinality(RunsOf("disksize")) = 26
    /\ \A k \in RunsOf("disksize") \cup RunsOf("mkswap") : ~cmdlog[k].ok
    /\ Cardinality(RunsOf("swapon")) = 1

\* The values vbswap_init has written to the enforcing state, in order.
SelWrites ==
    LET w == SelectSeq(sel_log, LAMBDA x : x.op = "write")
    IN [k \in 1..Len(w) |-> w[k].v]

\* C29: whatever the commands return, the enforcing state after vbswap_init
\* returns is the one read at its start: it is written only by vbswap_init,
\* which switches it to permissive only if it read enforcing and then
\* switches it back after the helper; if it read permissive, or the buffers
\* could not be allocated, it is never written.
C29_EnforcementRestored ==
    /\ [][enforcing' # enforcing =>
              /\ Len(SelWrites') = Len(SelWrites) + 1
              /\ SelWrites'[Len(SelWrites')] = enforcing']_vars
    /\ [](/\ (vpc = "start" \/ (vpc = "done" /\ cmdlog = <<>>)) => sel_log = <<>>
          /\ sel_log # <<>> =>
                 /\ sel_log[1].op = "read"
                 /\ ~sel_log[1].v => (SelWrites = <<>> /\ ~enforcing)
                 /\ sel_log[1].v =>
                        IF vpc \in {"free", "done"}
                        THEN SelWrites = <<FALSE, TRUE>> /\ enforcing /\ HelperReturned
                        ELSE SelWrites = <<FALSE>> /\ ~enforcing)

\* C29: vbswap_init has returned after reading the state as enforcing, with
\* every command failed, and the state is enforcing again.
C29_Witness ==
    /\ vpc = "done"
    /\ Len(sel_log) = 3
    /\ enforcing
    /\ \A k \in 1..Len(cmdlog) : ~cmdlog[k].ok
    /\ cmdlog # <<>>

\* C30 as stated: by the time vbswap_init returns, every buffer alloc_memory
\* allocated (the array and each of its four element buffers) has been freed
\* exactly once, on the success path and on the path where an element
\* allocation fails.
C30_NoBufferLeak ==
    vpc = "done" =>
        /\ heap.arr \in {"none", "freed"}
        /\ \A i \in 1..STANDARD_SIZE : heap.str[i] \in {"none", "freed"}

----------------------------------------------------------------------------
\* C21 as stated: for every sysfs store handler that parses an integer
\* (acl_store, dim_alpha_store, dimlayer_bl_en_store, dp_en_store,
\* dither_en_store, dsi_cmd_log_switch_store), when the input fails to parse
\* the stored value is left unchanged, no setter is invoked, and the handler
\* returns a negative error rather than the byte count.
C21_ParseFailureIsReported ==
    (store.attr \in Attrs /\ store.err # 0) =>
        /\ attrs[store.attr] = store.before
        /\ ~store.setter
        /\ store.ret < 0

----------------------------------------------------------------------------
\* The text the worker sends for a pending kind.
KindText(k) == IF k = 1 THEN WorkerText1 ELSE WorkerText2

\* The worker has called send_msg with the text of kind k after its a-th call.
SentSince(k, a) ==
    \E i \in (a + 1)..Len(calls) :
        calls[i].call = "send_msg" /\ calls[i].text = KindText(k)

\* C23 as stated: for every interleaving of the recognizer's enqueues (set
\* message_state, queue_work) with the worker's steps (read the pending
\* kind, send, reset it to none), a pending kind that is not overwritten by
\* a later enqueue is eventually sent, also when the enqueue falls between
\* the worker's read of the previous kind and its reset of the slot.
C23_NoLostNotification ==
    \A k \in {1, 2}, a \in 0..(2 * MaxEnq) :
        (mark = [kind |-> k, at |-> a] /\ kpc = 0 /\ ~panicked)
            ~> (mark # [kind |-> k, at |-> a] \/ SentSince(k, a) \/ panicked)

----------------------------------------------------------------------------
\* C24 as stated: the recognizer never schedules the worker on a queue that
\* does not exist: in every reachable state in which oem_check_force_dump_key
\* is about to enqueue a notification, smg_workwq and the work item have
\* been created, also when op_netlink_init returned failure because the
\* socket or the queue could not be created.
C24_QueueExistsAtEnqueue ==
    /\ (kpc > 0 /\ BranchStmts[kpc] = "queue_work") => (smg_workwq /\ smg_work)
    /\ ~oops

\* C28 as stated: once op_netlink_exit has released the socket, no send_msg
\* call, from a pending or running worker or from send_msg_sync_mdm_dump,
\* transmits on it.
C28_NoSendOnReleasedChannel ==
    [][sock_released => \A c \in IssuedSends : ~c.tx]_vars

====
